---------------------------- MODULE Spec2Model ----------------------------
(***************************************************************************)
(* A model of puml-req (src/main.rs): the PlantUML export client.         *)
(*                                                                         *)
(*   Spec      main(): make_client, one export task per input path in a   *)
(*             JoinSet, the join loop, and the runtime's shutdown.         *)
(*   SpecType  Display for Type and FromStr for Type as pure functions.    *)
(*   SpecPath  make_output_path as a pure function.                        *)
(*                                                                         *)
(* Strings that the program takes apart are sequences.  A --type argument  *)
(* is a sequence of one-letter strings.  A file name is a sequence of      *)
(* symbols: the dot ".", dot-free pieces ("a", "b", "svg") and one         *)
(* symbol for a byte sequence that is not UTF-8.                           *)
(***************************************************************************)
EXTENDS Integers, Sequences, FiniteSets, TLC

VARIABLES
    env,      \* the value of the http_proxy environment variable
    cli,      \* the parsed command line: [path, type_, url]
    client,   \* the reqwest Client main holds, Null before make_client
    mainpc,   \* where main is: "start", "join", "shutdown", "exited"
    result,   \* what main returns, Null until it returns
    task,     \* the export tasks of the JoinSet, one record per input path
    fs,       \* the contents of the files the run can touch
    arg,      \* SpecType, SpecPath: the argument of the function under study
    ret       \* SpecType, SpecPath: its return value, None before the call

vars == <<env, cli, client, mainpc, result, task, fs, arg, ret>>

Null == "null"

\* Option::None where the value is a record.
None == [none |-> TRUE]

\* Option::None where the value is a file name (a file name is never empty).
NoName == <<>>

Ok(v) == [ok |-> TRUE, val |-> v]

Err(e) == [ok |-> FALSE, err |-> e]

(***************************************************************************)
(* Bounds of the model.                                                    *)
(***************************************************************************)
MaxFiles == 2      \* most input paths on one command line (Spec)
MaxNameLen == 5    \* most symbols in a file name (SpecPath)
MaxWordLen == 3    \* most letters in a generated --type word (SpecType)

(***************************************************************************)
(* enum Type, Display for Type, FromStr for Type                           *)
(***************************************************************************)
Types == {"Ascii", "Png", "Svg"}

\* impl Display for Type: the string used as URL segment and as extension.
Display(t) ==
    CASE t = "Ascii" -> "txt"
      [] t = "Svg" -> "svg"
      [] t = "Png" -> "png"

\* The letters of the string literals of the program, one per element.
Spell(lit) ==
    CASE lit = "ascii" -> <<"a", "s", "c", "i", "i">>
      [] lit = "txt" -> <<"t", "x", "t">>
      [] lit = "svg" -> <<"s", "v", "g">>
      [] lit = "png" -> <<"p", "n", "g">>

LowerLetters == <<"a", "c", "g", "i", "n", "p", "s", "t", "v", "x">>

UpperLetters == <<"A", "C", "G", "I", "N", "P", "S", "T", "V", "X">>

\* char::to_lowercase on the letters of the model; other characters are kept.
LowerChar(c) ==
    IF \E k \in 1..Len(UpperLetters) : UpperLetters[k] = c
    THEN LowerLetters[CHOOSE k \in 1..Len(UpperLetters) : UpperLetters[k] = c]
    ELSE c

\* str::to_lowercase
ToLowercase(s) == [k \in 1..Len(s) |-> LowerChar(s[k])]

\* from_str without the to_lowercase of line 38.
FromStrCaseSensitive(s) ==
    CASE s = Spell("ascii") \/ s = Spell("txt") -> Ok("Ascii")
      [] s = Spell("svg") -> Ok("Svg")
      [] s = Spell("png") -> Ok("Png")
      [] OTHER -> Err(<<"Unknown Type", s>>)

\* impl FromStr for Type
FromStr(s) ==
    CASE ToLowercase(s) = Spell("ascii") \/ ToLowercase(s) = Spell("txt") -> Ok("Ascii")
      [] ToLowercase(s) = Spell("svg") -> Ok("Svg")
      [] ToLowercase(s) = Spell("png") -> Ok("Png")
      [] OTHER -> Err(<<"Unknown Type", s>>)

(***************************************************************************)
(* Paths.  A path is [dir, name]: the parent directory and the last        *)
(* component.  The root "/" is [dir |-> Null, name |-> NoName].  A last    *)
(* component "." is never seen by the program: std's Path drops it.        *)
(***************************************************************************)
NonUtf8 == "\\xFF"

NameChars == {"a", "b", ".", "svg", NonUtf8}

\* The parent directories of the model: the current directory and "/d".
Dirs == {"", "/d"}

Dot == <<".">>

DotDot == <<".", ".">>

RootPath == [dir |-> Null, name |-> NoName]

\* Path::file_name: None for the root and for a path ending in "..".
FileName(p) == IF p.name = NoName \/ p.name = DotDot THEN NoName ELSE p.name

\* The index of the last "." of a name, 0 if there is none.
LastDot(n) ==
    IF \E k \in 1..Len(n) : n[k] = "."
    THEN CHOOSE k \in 1..Len(n) : n[k] = "." /\ \A j \in (k+1)..Len(n) : n[j] # "."
    ELSE 0

\* std's rsplit_file_at_dot, first half: the stem of a file name.  The whole
\* name when it has no dot or its only dot leads it.
StemOfName(n) ==
    IF n = DotDot THEN n
    ELSE IF LastDot(n) <= 1 THEN n
    ELSE SubSeq(n, 1, LastDot(n) - 1)

\* Path::file_stem
FileStem(p) == IF FileName(p) = NoName THEN NoName ELSE StemOfName(FileName(p))

\* OsStr::to_str: None when the bytes are not UTF-8.
ToStr(n) == IF \E k \in 1..Len(n) : n[k] = NonUtf8 THEN NoName ELSE n

\* Path::parent: None for the root.
Parent(p) == p.dir

\* Path::with_extension on a one-component relative path: the extension of
\* the name is replaced; a name that is no file name ("." or "..") is kept.
WithExtension(n, ext) ==
    IF n = NoName \/ n = Dot \/ n = DotDot THEN n
    ELSE StemOfName(n) \o <<".", ext>>

\* make_output_path without the with_extension of line 66: the input's path.
MakeOutputPathKeepInput(input, type_) ==
    IF FileStem(input) = NoName THEN Err("no file stem for input path")
    ELSE Ok(input)

\* fn make_output_path
MakeOutputPath(input, type_) ==
    IF FileStem(input) = NoName THEN Err("no file stem for input path")
    ELSE IF ToStr(FileStem(input)) = NoName THEN Err("Cannot convert to str")
    ELSE IF Parent(input) = Null THEN Err("no parent found")
    ELSE Ok([dir |-> Parent(input),
             name |-> WithExtension(ToStr(FileStem(input)), Display(type_))])

(***************************************************************************)
(* SpecType: one call of Type::from_str or of Type's Display.              *)
(***************************************************************************)
MainIdle ==
    /\ env = Null /\ cli = Null /\ client = Null /\ mainpc = Null
    /\ result = Null /\ task = Null /\ fs = Null

MainVars == <<env, cli, client, mainpc, result, task, fs>>

WordLetters == {"s", "v", "g"}

\* The lower-case words the --type arguments of the model are spelled from.
Words ==
    UNION {[1..n -> WordLetters] : n \in 0..MaxWordLen}
    \cup {Spell("ascii"), Spell("txt"), Spell("png"), Spell("svg"),
          <<"a", "s", "c", "i">>, <<"t", "x", "t", "t">>, <<"p", "n">>,
          <<"x", "y", "z">>, <<"a", "s", "c", "i", "i", "i">>}

UpperChar(c) ==
    IF \E k \in 1..Len(LowerLetters) : LowerLetters[k] = c
    THEN UpperLetters[CHOOSE k \in 1..Len(LowerLetters) : LowerLetters[k] = c]
    ELSE c

\* Word w with the letters at the positions m in upper case.
Cased(w, m) == [k \in 1..Len(w) |-> IF k \in m THEN UpperChar(w[k]) ELSE w[k]]

TypeArgs ==
    UNION {{[fn |-> "from_str", s |-> Cased(w, m)] : m \in SUBSET (1..Len(w))} : w \in Words}
    \cup {[fn |-> "fmt", t |-> t] : t \in Types}

InitType == arg \in TypeArgs /\ ret = None /\ MainIdle

CallFromStr ==
    /\ arg.fn = "from_str" /\ ret = None
    /\ ret' = FromStr(arg.s)
    /\ UNCHANGED <<arg, MainVars>>

CallDisplay ==
    /\ arg.fn = "fmt" /\ ret = None
    /\ ret' = Ok(Display(arg.t))
    /\ UNCHANGED <<arg, MainVars>>

NextType == CallFromStr \/ CallDisplay

SpecType == InitType /\ [][NextType]_vars

(***************************************************************************)
(* SpecPath: one call of make_output_path.                                 *)
(***************************************************************************)
Names == (UNION {[1..n -> NameChars] : n \in 1..MaxNameLen}) \ {Dot}

PathInputs == {[dir |-> d, name |-> n] : d \in Dirs, n \in Names} \cup {RootPath}

InitPath ==
    /\ arg \in [fn : {"make_output_path"}, input : PathInputs, type_ : Types]
    /\ ret = None /\ MainIdle

CallMakeOutputPath ==
    /\ arg.fn = "make_output_path" /\ ret = None
    /\ ret' = MakeOutputPath(arg.input, arg.type_)
    /\ UNCHANGED <<arg, MainVars>>

NextPath == CallMakeOutputPath

SpecPath == InitPath /\ [][NextPath]_vars

(***************************************************************************)
(* Spec: main and its export tasks.                                        *)
(*                                                                         *)
(* What the libraries do, as far as the program's behaviour rests on it:   *)
(*  - reqwest: Proxy::http fails on a string that is no URL (the empty     *)
(*    string included); send() is Ok for every HTTP status, the program    *)
(*    never calls error_for_status.                                        *)
(*  - tokio JoinSet: dropping the set aborts every task still in it; an    *)
(*    aborted task stops at the await it is suspended at.                  *)
(*  - tokio fs::File: write_all copies up to one buffer of data, hands it  *)
(*    to a blocking write and returns; the outcome of that write is seen   *)
(*    only by the next write or flush on the file.  The runtime's shutdown *)
(*    waits for the blocking writes that were handed over.                 *)
(***************************************************************************)
ProxyValues ==
    {[set |-> FALSE],
     [set |-> TRUE, val |-> ""],
     [set |-> TRUE, val |-> "http://["],
     [set |-> TRUE, val |-> "http://proxy:3128"]}

\* Whether reqwest's Proxy::http accepts the string as a proxy URL.
ProxyUrlOk(v) == v = "http://proxy:3128"

\* make_client with the ? of line 76 replaced by a fallback to no proxy.
MakeClientIgnoreBadProxy(e) ==
    IF e.set /\ ProxyUrlOk(e.val) THEN Ok([proxy |-> e.val]) ELSE Ok([proxy |-> Null])

\* fn make_client
MakeClient(e) ==
    IF e.set
    THEN IF ProxyUrlOk(e.val) THEN Ok([proxy |-> e.val]) ELSE Err("builder error")
    ELSE Ok([proxy |-> Null])

\* The input paths of the model, in a fixed order.
InputList ==
    << [dir |-> "/d", name |-> <<"a", ".", "b">>],
       [dir |-> "/d", name |-> <<"a", ".", "svg">>],
       [dir |-> "", name |-> <<"a", ".", "b">>],
       [dir |-> "/d", name |-> <<NonUtf8, ".", "b">>] >>

\* Command lines of pairwise distinct paths, up to the order of the paths,
\* which the program ignores: it spawns every task before it joins any.
PathLists ==
    UNION {{[k \in 1..n |-> InputList[f[k]]] :
              f \in {g \in [1..n -> 1..Len(InputList)] :
                        \A k \in 1..(n - 1) : g[k] < g[k + 1]}} : n \in 0..MaxFiles}

\* The --type values of the runs: the one an input of InputList carries as
\* its extension, and one that no input carries.
CliTypes == {"Svg", "Png"}

\* const URL, the default of --url
URL == "http://www.plantuml.com/plantuml"

\* The stages of export, in the order of its statements.
Pipeline == <<"read", "encode", "get", "resolve", "create", "write">>

\* A file's content: a sequence of chunks.  Chunk k of the body task i
\* received is [by |-> i, k |-> k]; what the file held before the run is the
\* one chunk Original.
Original == <<[by |-> 0, k |-> 0]>>

\* A response body is small (at most one buffer of tokio's File) or large,
\* which the model takes to be two buffers.
Chunks(size) == IF size = "small" THEN 1 ELSE 2

\* The responses of the model: a success with a small or a large body, and
\* an HTTP error with a small body (an error page).
Responses ==
    {[status |-> 200, size |-> "small"], [status |-> 200, size |-> "large"],
     [status |-> 404, size |-> "small"]}

\* A path that names a directory: it cannot be read as text nor created.
IsDir(p) == FileName(p) = NoName \/ p.name = Dot

\* plantuml_encoding::encode_plantuml_deflate, as an opaque injective token.
Encode(text) == [deflate |-> text]

\* The files of the run: the inputs and the outputs derived from them.
FsPaths(c) ==
    {c.path[i] : i \in 1..Len(c.path)}
    \cup {MakeOutputPath(c.path[i], c.type_).val :
            i \in {j \in 1..Len(c.path) : MakeOutputPath(c.path[j], c.type_).ok}}

Spawned ==
    [pc |-> "spawned", log |-> <<>>, err |-> Null, uml_str |-> <<>>, url |-> None, resp |-> None,
     out |-> None, rem |-> 0, bg |-> "idle", bgerr |-> FALSE, nw |-> 0,
     joined |-> FALSE]

Failed(t, stage) == [t EXCEPT !.pc = "failed", !.err = stage]

Running(t) == t.pc \in {"spawned", "get", "create", "write"}

Init ==
    /\ env \in ProxyValues
    /\ cli \in [path : PathLists, type_ : CliTypes, url : {URL}]
    /\ client = None
    /\ mainpc = "start"
    /\ result = None
    /\ task = <<>>
    /\ fs = [p \in FsPaths(cli) |-> Original]
    /\ arg = Null /\ ret = None

\* main, lines 104-110: make_client()?, then one spawned export per path.
Start ==
    /\ mainpc = "start"
    /\ IF MakeClient(env).ok
       THEN /\ client' = MakeClient(env).val
            /\ task' = [i \in 1..Len(cli.path) |-> Spawned]
            /\ mainpc' = "join"
            /\ UNCHANGED result
       ELSE /\ result' = Err(<<"make_client", MakeClient(env).err>>)
            /\ mainpc' = "shutdown"
            /\ UNCHANGED <<client, task>>
    /\ UNCHANGED <<env, cli, fs, arg, ret>>

\* export, lines 84-89: open and read the input, encode it, send the GET.
Read(i) ==
    /\ mainpc = "join" /\ task[i].pc = "spawned"
    /\ \/ task' = [task EXCEPT ![i] = Failed([@ EXCEPT !.log = <<"read">>], "read")]
       \/ /\ ~IsDir(cli.path[i])
          /\ \/ task' = [task EXCEPT ![i] =
                            Failed([@ EXCEPT !.log = <<"read", "encode">>,
                                             !.uml_str = fs[cli.path[i]]], "encode")]
             \/ task' = [task EXCEPT ![i] =
                            [@ EXCEPT !.pc = "get",
                                      !.log = <<"read", "encode", "get">>,
                                      !.uml_str = fs[cli.path[i]],
                                      !.url = [base |-> cli.url,
                                               segment |-> Display(cli.type_),
                                               token |-> Encode(fs[cli.path[i]])]]]
    /\ UNCHANGED <<env, cli, client, mainpc, result, fs, arg, ret>>

\* The task after the body arrived: line 90, make_output_path(path, type_)?,
\* then the open of line 92 is started.
Fetched(t, input, type_, resp) ==
    IF MakeOutputPath(input, type_).ok
    THEN [t EXCEPT !.pc = "create", !.resp = resp, !.log = Append(@, "resolve"),
                   !.out = MakeOutputPath(input, type_).val]
    ELSE Failed([t EXCEPT !.resp = resp, !.log = Append(@, "resolve")], "resolve")

\* The task after a failed GET if export sent the request again.
GetFailedRetry(t) == [t EXCEPT !.log = Append(@, "get")]

\* The task after send() or bytes() returned an error: the ? of line 89.
GetFailed(t) == Failed(t, "get")

\* export, lines 89-90: the response and its body arrive, whatever the status.
Get(i) ==
    /\ mainpc = "join" /\ task[i].pc = "get"
    /\ \/ task' = [task EXCEPT ![i] = GetFailed(@)]
       \/ \E resp \in Responses :
             task' = [task EXCEPT ![i] = Fetched(@, cli.path[i], cli.type_, resp)]
    /\ UNCHANGED <<env, cli, client, mainpc, result, fs, arg, ret>>

\* The task after write_all handed one more chunk to a blocking write: the
\* call returns, and export with it, when no data is left.
HandOver(t) ==
    [t EXCEPT !.rem = @ - 1, !.bg = "busy",
              !.log = IF "write" \in {t.log[k] : k \in 1..Len(t.log)} THEN @ ELSE Append(@, "write"),
              !.pc = IF t.rem = 1 THEN "ok" ELSE "write"]

\* export, lines 92-98: the output is created or truncated, then write_all.
Create(i) ==
    /\ mainpc = "join" /\ task[i].pc = "create"
    /\ \/ /\ task' = [task EXCEPT ![i] = Failed([@ EXCEPT !.log = Append(@, "create")], "create")]
          /\ UNCHANGED fs
       \/ /\ ~IsDir(task[i].out)
          /\ fs' = [fs EXCEPT ![task[i].out] = <<>>]
          /\ task' = [task EXCEPT ![i] =
                         HandOver([@ EXCEPT !.log = Append(@, "create"),
                                            !.rem = Chunks(task[i].resp.size)])]
    /\ UNCHANGED <<env, cli, client, mainpc, result, arg, ret>>

\* The content of a file after chunk c is written at chunk offset k.
WriteAt(content, k, c) ==
    [j \in 1..(IF k > Len(content) THEN k ELSE Len(content)) |->
        IF j = k THEN c
        ELSE IF j <= Len(content) THEN content[j]
        ELSE [by |-> 0, k |-> 0]]

\* tokio's blocking write of the chunk handed over: it succeeds or fails (disk
\* full, I/O error); nobody is told unless the file is written to again.
BlockingWrite(i) ==
    /\ mainpc \in {"join", "shutdown"} /\ task[i].bg = "busy"
    /\ \/ /\ fs' = [fs EXCEPT ![task[i].out] =
                       WriteAt(@, Chunks(task[i].resp.size) - task[i].rem,
                               [by |-> i, k |-> Chunks(task[i].resp.size) - task[i].rem])]
          /\ task' = [task EXCEPT ![i] = [@ EXCEPT !.bg = "idle", !.nw = @ + 1]]
       \/ /\ task' = [task EXCEPT ![i] = [@ EXCEPT !.bg = "idle", !.bgerr = TRUE]]
          /\ UNCHANGED fs
    /\ UNCHANGED <<env, cli, client, mainpc, result, arg, ret>>

\* export, line 98: write_all's next round, once the earlier write is over.
WriteNext(i) ==
    /\ mainpc = "join" /\ task[i].pc = "write" /\ task[i].bg = "idle"
    /\ task' = [task EXCEPT ![i] = IF @.bgerr THEN Failed(@, "write") ELSE HandOver(@)]
    /\ UNCHANGED <<env, cli, client, mainpc, result, fs, arg, ret>>

\* main, lines 111-113: join_next yields a finished task; res?? returns on
\* its error, which drops the JoinSet and so aborts the tasks still running.
\* The open of an aborted task that was under way may still truncate (S).
Join(i) ==
    /\ mainpc = "join" /\ ~task[i].joined /\ task[i].pc \in {"ok", "failed"}
    /\ IF task[i].pc = "ok"
       THEN /\ task' = [task EXCEPT ![i].joined = TRUE]
            /\ UNCHANGED <<mainpc, result, fs>>
       ELSE /\ result' = Err(<<"export", i, task[i].err>>)
            /\ mainpc' = "shutdown"
            /\ \E S \in SUBSET {j \in DOMAIN task :
                                  task[j].pc = "create" /\ ~IsDir(task[j].out)} :
                  /\ task' = [j \in DOMAIN task |->
                                IF j = i THEN [task[j] EXCEPT !.joined = TRUE]
                                ELSE IF Running(task[j])
                                THEN [task[j] EXCEPT
                                        !.pc = "aborted",
                                        !.log = IF j \in S THEN Append(@, "create") ELSE @]
                                ELSE task[j]]
                  /\ fs' = [p \in DOMAIN fs |->
                              IF \E j \in S : task[j].out = p THEN <<>> ELSE fs[p]]
    /\ UNCHANGED <<env, cli, client, arg, ret>>

\* main, lines 111 and 114: join_next yields None, main returns Ok(()).
JoinNone ==
    /\ mainpc = "join" /\ \A i \in DOMAIN task : task[i].joined
    /\ result' = Ok("unit")
    /\ mainpc' = "shutdown"
    /\ UNCHANGED <<env, cli, client, task, fs, arg, ret>>

\* #[tokio::main]: the runtime is dropped, which waits for the blocking
\* writes handed over, and the process exits with main's result.
Exit ==
    /\ mainpc = "shutdown" /\ \A i \in DOMAIN task : task[i].bg = "idle"
    /\ mainpc' = "exited"
    /\ UNCHANGED <<env, cli, client, result, task, fs, arg, ret>>

Next ==
    \/ Start
    \/ \E i \in DOMAIN task : Read(i)
    \/ \E i \in DOMAIN task : Get(i)
    \/ \E i \in DOMAIN task : Create(i)
    \/ \E i \in DOMAIN task : BlockingWrite(i)
    \/ \E i \in DOMAIN task : WriteNext(i)
    \/ \E i \in DOMAIN task : Join(i)
    \/ JoinNone
    \/ Exit

Spec == Init /\ [][Next]_vars

(***************************************************************************)
(* Properties of the format mapping and of make_output_path.               *)
(***************************************************************************)
\* s is w (a lower-case word) up to the case of its letters.
SameIgnoringCase(s, w) ==
    /\ Len(s) = Len(w)
    /\ \A k \in 1..Len(s) :
          \/ s[k] = w[k]
          \/ \E j \in 1..Len(LowerLetters) : w[k] = LowerLetters[j] /\ s[k] = UpperLetters[j]

\* C8: Display maps Ascii, Png, Svg to the pairwise distinct strings "txt",
\* "png", "svg"; from_str of a displayed string in any letter case gives the
\* variant back, of "ascii" in any letter case gives Ascii, and fails on every
\* other string.
C8_FormatMappingBijective ==
    /\ \A t, u \in Types : Display(t) = Display(u) => t = u
    /\ (arg.fn = "fmt" /\ ret # None) =>
          /\ ret.ok
          /\ arg.t = "Ascii" => ret.val = "txt"
          /\ arg.t = "Png" => ret.val = "png"
          /\ arg.t = "Svg" => ret.val = "svg"
    /\ (arg.fn = "from_str" /\ ret # None) =>
          /\ \A t \in Types : SameIgnoringCase(arg.s, Spell(Display(t))) => ret = Ok(t)
          /\ SameIgnoringCase(arg.s, Spell("ascii")) => ret = Ok("Ascii")
          /\ ( /\ \A t \in Types : ~SameIgnoringCase(arg.s, Spell(Display(t)))
               /\ ~SameIgnoringCase(arg.s, Spell("ascii")) ) => ~ret.ok

\* C8 witness: a mixed-case "sVg" was parsed to Svg.
C8_Witness ==
    /\ arg.fn = "from_str" /\ arg.s = <<"s", "V", "g">>
    /\ ret = Ok("Svg")

\* A file name with only its final extension removed, as the spec words it.
FinalExtensionRemoved(n) == IF LastDot(n) <= 1 THEN n ELSE SubSeq(n, 1, LastDot(n) - 1)

\* C4: for every input path with a (text) file name and every format,
\* make_output_path returns the input's parent directory joined with the file
\* name less its final extension, then "." and the format's string.
C4_OutputKeepsStem ==
    ( /\ arg.fn = "make_output_path" /\ ret # None
      /\ FileName(arg.input) # NoName
      /\ ToStr(FileName(arg.input)) # NoName ) =>
        ret = Ok([dir |-> arg.input.dir,
                  name |-> FinalExtensionRemoved(arg.input.name)
                           \o <<".", Display(arg.type_)>>])

\* A file name that is only an extension, such as ".puml".
OnlyExtension(n) == Len(n) >= 2 /\ n[1] = "." /\ \A k \in 2..Len(n) : n[k] # "."

\* C5: make_output_path returns an error whenever the input path has no file
\* name or its file name is only an extension.
C5_ExtensionOnlyRejected ==
    ( /\ arg.fn = "make_output_path" /\ ret # None
      /\ (FileName(arg.input) = NoName \/ OnlyExtension(arg.input.name)) ) =>
        ~ret.ok

(***************************************************************************)
(* Properties of main and export.                                          *)
(***************************************************************************)
\* Task i entered the stage: the stage is in its log.
Done(i, stage) == \E k \in 1..Len(task[i].log) : task[i].log[k] = stage

\* Task i created or truncated its output file.
Created(i) ==
    /\ task[i].out # None
    /\ Done(i, "create")
    /\ ~(task[i].pc = "failed" /\ task[i].err = "create")

IsPrefix(a, b) == Len(a) <= Len(b) /\ \A k \in 1..Len(a) : a[k] = b[k]

ClientError == ~result.ok /\ result.err[1] = "make_client"

\* C1: when an export fails no sibling export is cancelled: every launched
\* export ends by itself, written or failed, before main returns.
C1_NoSiblingCancelled ==
    \A i \in DOMAIN task :
        /\ task[i].pc # "aborted"
        /\ mainpc \in {"shutdown", "exited"} => task[i].pc \in {"ok", "failed"}

\* C2: the process ends with an error if an export failed or was aborted, and
\* with Ok only if every export succeeded, that is only after the whole body
\* of every response is in its output file.
C2_OkOnlyIfAllWritten ==
    mainpc = "exited" =>
        /\ (\E i \in DOMAIN task : task[i].pc \in {"failed", "aborted"}) => ~result.ok
        /\ result.ok => \A i \in DOMAIN task :
                            /\ task[i].pc = "ok"
                            /\ task[i].nw = Chunks(task[i].resp.size)

\* C3: a response with a non-success status fails the export at the GET: the
\* output file is not created, truncated or written, and no request is resent.
C3_ErrorStatusFailsExport ==
    \A i \in DOMAIN task :
        (task[i].resp # None /\ task[i].resp.status # 200) =>
            /\ task[i].pc = "failed" /\ task[i].err = "get"
            /\ ~Created(i) /\ ~Done(i, "write")

\* C6: a malformed proxy variable makes main return make_client's error, and
\* in a run that ends with that error no task was spawned, no file was read,
\* no request sent, and no file created or changed.
C6_ClientErrorBeforeAnyIo ==
    /\ (mainpc # "start" /\ env.set /\ env.val = "http://[") =>
          (result # None /\ ClientError)
    /\ (result # None /\ ClientError) =>
          /\ task = <<>>
          /\ client = None
          /\ \A p \in DOMAIN fs : fs[p] = Original

\* C6 witness: a run with inputs ended with the client error.
C6_Witness ==
    /\ mainpc = "exited" /\ result # None /\ ClientError
    /\ env.set /\ env.val = "http://["
    /\ Len(cli.path) >= 1

\* C7: a proxy is configured exactly when the variable is set and not empty;
\* with the variable unset or empty the client is built without proxy and the
\* exports are dispatched.
C7_EmptyProxyMeansDirect ==
    mainpc # "start" =>
        /\ (~env.set \/ env.val = "") =>
              /\ result = None \/ ~ClientError
              /\ client = [proxy |-> Null]
              /\ Len(task) = Len(cli.path)
        /\ (client # None /\ client.proxy # Null) => (env.set /\ env.val # "")

\* C9: an export runs its stages in the order read, encode, GET of
\* {url}/{segment}/{token}, resolve, create, write, each at most once; a
\* failure at a stage is the last thing the export does; the output is created
\* only after the body arrived and the output path was resolved.
C9_StagesInOrder ==
    \A i \in DOMAIN task :
        LET t == task[i] IN
        /\ t.log = SubSeq(Pipeline, 1, Len(t.log))
        /\ t.pc = "failed" => (t.log # <<>> /\ t.log[Len(t.log)] = t.err)
        /\ Len(t.log) >= 3 =>
              t.url = [base |-> cli.url, segment |-> Display(cli.type_),
                       token |-> Encode(t.uml_str)]
        /\ Len(t.log) >= 5 => (t.resp # None /\ t.out # None)
        /\ t.out # None => (t.resp # None /\ Len(t.log) >= 4)
        /\ t.nw <= (IF t.resp = None THEN 0 ELSE Chunks(t.resp.size))

\* C9 witness: one export went through every stage, another failed at the GET
\* and did nothing after it.
C9_Witness ==
    \E i, j \in DOMAIN task :
        /\ task[i].pc = "ok" /\ task[i].log = Pipeline /\ task[i].nw = 2
        /\ task[j].pc = "failed" /\ task[j].err = "get"
        /\ task[j].log = <<"read", "encode", "get">>

\* The name ends in "." and ext.
HasExtension(n, ext) == Len(n) >= 2 /\ n[Len(n)] = ext /\ n[Len(n) - 1] = "."

\* C10 as claimed: with pairwise distinct inputs no two tasks create the same
\* output path, and no task creates a path that a task reads as its input.
C10_NoSharedFile ==
    \A i, j \in DOMAIN task :
        (Created(i) /\ Created(j)) =>
            /\ i # j => task[i].out # task[j].out
            /\ task[i].out # cli.path[j]

\* C10 as amended: a task creates only a path in its own input's directory
\* whose name ends in "." and the format's string; so tasks with inputs in
\* different directories never create the same path, and no file with another
\* name, input or not, is changed.
C10_WritesOnlySiblingWithExtension ==
    LET ext == Display(cli.type_) IN
    /\ \A i \in DOMAIN task : Created(i) =>
          /\ task[i].out.dir = cli.path[i].dir
          /\ HasExtension(task[i].out.name, ext)
          /\ \A j \in DOMAIN task :
                (Created(j) /\ cli.path[i].dir # cli.path[j].dir)
                    => task[i].out # task[j].out
    /\ \A p \in DOMAIN fs : fs[p] # Original => HasExtension(p.name, ext)

\* C10 witness: two tasks with inputs in different directories both wrote
\* their output.
C10_Witness ==
    \E i, j \in DOMAIN task :
        /\ cli.path[i].dir # cli.path[j].dir
        /\ task[i].pc = "ok" /\ task[j].pc = "ok"
        /\ task[i].nw >= 1 /\ task[j].nw >= 1
        /\ fs[task[i].out] # Original /\ fs[task[j].out] # Original

=============================================================================
